---- MODULE Spec2Model ----
(***************************************************************************)
(* A model of louisdwu/pdf_seperator: the PDFSplitter handle of            *)
(* src/src/pdf_splitter.py (outline analysis, filename sanitizing, the     *)
(* export loop with its progress callback) and the SplitterApp event       *)
(* handlers of src/src/gui.py that drive it from the Tk main thread and    *)
(* one background thread.                                                  *)
(*                                                                         *)
(* Strings are sequences of characters; a character is a one-character     *)
(* string, and a CJK character of a source literal is written by its code  *)
(* point ("U524D").                                                        *)
(***************************************************************************)
EXTENDS Integers, Sequences, FiniteSets, TLC

VARIABLES
    toc,            \* the outline of the PDF file on disk: fitz get_toc()
    total_pages,    \* the page count of the PDF file on disk: len(doc)
    doc,            \* per handle: self.doc ("unborn" before __init__)
    split_plans,    \* per handle: self.split_plans
    splitter,       \* the handle in use (SplitterApp.splitter; 0 is None)
    an_call,        \* the last analyze_structure call: its outcome, and
                    \* whether the handle was released when it was made
    sp_pc,          \* position of the split call
    sp_h,           \* the handle the split call runs on (self)
    sp_cb,          \* whether the split call was given a callback
    sp_plans,       \* the list object the loop of split iterates
    sp_i,           \* the loop index i of split
    sp_entry,       \* what split found on entry: no plans, a released handle
    output_files,   \* the local output_files of split
    cbs,            \* the progress values passed to the callback, in order
    made_dir,       \* whether the split call has run os.makedirs
    saved,          \* the files the split call has saved, in order
    san,            \* the sanitizer under test: the input, then the results
    input_path,     \* SplitterApp.input_path holds a PDF file's path
    output_path,    \* SplitterApp.output_path is not empty
    is_processing,  \* SplitterApp.is_processing
    analyze_button, \* state of SplitterApp.analyze_button
    split_button,   \* state of SplitterApp.split_button
    an_phase,       \* position of _analyze_pdf: "none", or "update" while it
                    \* is inside root.update()
    w_pc,           \* position of the _do_split thread
    after_queue,    \* the callbacks posted with root.after, oldest first
    destroyed       \* root.destroy() has run

handleVars == <<doc, split_plans>>
splitVars == <<sp_pc, sp_h, sp_cb, sp_plans, sp_i, sp_entry, output_files,
               cbs, made_dir, saved>>
fileVars == <<toc, total_pages>>
guiVars == <<input_path, output_path, is_processing, analyze_button,
             split_button, an_phase, w_pc, after_queue, destroyed>>
vars == <<fileVars, handleVars, splitter, an_call, splitVars, san, guiVars>>

----------------------------------------------------------------------------
(* Bounds of the model *)

MaxPages == 3
MaxToc == 2
MaxHandles == 2
MaxTail == 3
MaxChapters == 3

(* Program constants *)

MaxNameLen == 100
PadWidth == 2

Handles == 1..MaxHandles

----------------------------------------------------------------------------
(* Strings *)

Digits == <<"0", "1", "2", "3", "4", "5", "6", "7", "8", "9">>

RECURSIVE Str(_)
Str(n) == IF n < 10 THEN <<Digits[n + 1]>>
          ELSE Str(n \div 10) \o <<Digits[(n % 10) + 1]>>

RECURSIVE Zfill(_, _)
Zfill(s, w) == IF Len(s) < w THEN Zfill(<<"0">> \o s, w) ELSE s

RECURSIVE Rep(_, _)
Rep(c, n) == IF n = 0 THEN <<>> ELSE <<c>> \o Rep(c, n - 1)

InvalidChars == {"<", ">", ":", "\"", "/", "\\", "|", "?", "*"}
StripChars == {" ", "."}

Unnamed == <<"U672A", "U547D", "U540D">>
FullDocName == <<"0", "0", "_", "U5B8C", "U6574", "U6587", "U6863">>
FullDocTitle == <<"U5B8C", "U6574", "U6587", "U6863">>
LeadingName == <<"0", "0", "_", "U524D", "U5BFC", "U90E8", "U5206">>
LeadingTitle == <<"U524D", "U5BFC", "U90E8", "U5206", "UFF08", "U5C01",
                  "U9762", "/", "U76EE", "U5F55", "U7B49", "UFF09">>

ReplaceInvalid(name) ==
    [i \in 1..Len(name) |-> IF name[i] \in InvalidChars THEN "_" ELSE name[i]]

RECURSIVE LStrip(_)
LStrip(s) == IF s # <<>> /\ Head(s) \in StripChars THEN LStrip(Tail(s)) ELSE s

RECURSIVE RStrip(_)
RStrip(s) == IF s # <<>> /\ s[Len(s)] \in StripChars
             THEN RStrip(SubSeq(s, 1, Len(s) - 1)) ELSE s

Strip(s) == RStrip(LStrip(s))

Truncate(s) == IF Len(s) > MaxNameLen THEN SubSeq(s, 1, MaxNameLen) ELSE s

SanitizeFilename(name) ==
    LET sanitized == Truncate(Strip(ReplaceInvalid(name)))
    IN  IF sanitized = <<>> THEN Unnamed ELSE sanitized

----------------------------------------------------------------------------
(* analyze_structure *)

TopLevelTocAnyLevel(t) == SelectSeq(t, LAMBDA e : e.level >= 1)

TopLevelToc(t) == SelectSeq(t, LAMBDA e : e.level = 1)

ChapterNumFromZero(i) == Zfill(Str(i - 1), PadWidth)

ChapterNum(i) == Zfill(Str(i), PadWidth)

ChapterName(i, title) == ChapterNum(i) \o <<"_">> \o SanitizeFilename(title)

ChapterEndOffByOne(top, i, P) ==
    IF i < Len(top) THEN top[i + 1].page - 1 ELSE P - 1

ChapterEnd(top, i, P) ==
    IF i < Len(top) THEN top[i + 1].page - 2 ELSE P - 1

WholeDocument(P) ==
    <<[name |-> FullDocName, start_page |-> 0, end_page |-> P - 1,
       title |-> FullDocTitle, level |-> 0]>>

LeadingPart(top) ==
    LET first_chapter_page == top[1].page - 1
    IN  IF first_chapter_page > 0
        THEN <<[name |-> LeadingName, start_page |-> 0,
                end_page |-> first_chapter_page - 1,
                title |-> LeadingTitle, level |-> 0]>>
        ELSE <<>>

Chapters(top, P) ==
    [i \in 1..Len(top) |->
        [name |-> ChapterName(i, top[i].title),
         start_page |-> top[i].page - 1,
         end_page |-> ChapterEnd(top, i, P),
         title |-> top[i].title, level |-> 1]]

AnalyzePlans(t, P) ==
    LET top == TopLevelToc(t)
    IN  IF top = <<>> THEN WholeDocument(P)
        ELSE LeadingPart(top) \o Chapters(top, P)

----------------------------------------------------------------------------
(* split: the page copy and the output path *)

Min(a, b) == IF a < b THEN a ELSE b
Max(a, b) == IF a > b THEN a ELSE b

InsertPdfExclusive(P, from_page, to_page) ==
    [k \in 1..(Min(to_page, P) - Max(from_page, 0)) |-> Max(from_page, 0) + k - 1]

(* fitz Document.insert_pdf(docsrc, from_page, to_page) into an empty       *)
(* document: the page numbers of docsrc copied, in order.  PyMuPDF clamps   *)
(* from_page into [0, P-1], reads a negative to_page as the last page,      *)
(* clamps to_page to P-1, and copies in reverse order when from_page is     *)
(* greater than to_page.                                                    *)
InsertPdf(P, from_page, to_page) ==
    LET fp == Min(Max(from_page, 0), P - 1)
        tp == IF to_page < 0 THEN P - 1 ELSE Min(to_page, P - 1)
    IN  IF fp <= tp THEN [k \in 1..(tp - fp + 1) |-> fp + k - 1]
        ELSE [k \in 1..(fp - tp + 1) |-> fp - k + 1]

OutputDir == <<"o", "u", "t">>

OutputPath(name) == OutputDir \o <<"/">> \o name \o <<".", "p", "d", "f">>

ProgressOfNext(i, total) == <<i + 1, total>>

(* A progress value i / total, kept as the pair <<i, total>>; 1.0 is <<1, 1>> *)
Progress(i, total) == <<i, total>>

Done == <<1, 1>>

----------------------------------------------------------------------------
(* The operations of one PDFSplitter handle h *)

NoCall == [result |-> "none", released |-> FALSE]
NoEntry == [empty |-> FALSE, released |-> FALSE]

(* analyze_structure, called by the user of the handle *)
AnalyzeStructure(h) ==
    IF doc[h] = "open"
    THEN /\ split_plans' = [split_plans EXCEPT ![h] = AnalyzePlans(toc, total_pages)]
         /\ an_call' = [result |-> "returned", released |-> FALSE]
    ELSE /\ an_call' = [result |-> "raised", released |-> TRUE]
         /\ UNCHANGED split_plans

(* close *)
Close(h) ==
    doc' = [doc EXCEPT ![h] = IF doc[h] = "open" THEN "none" ELSE doc[h]]

PlansAtEntryAsFound(h) == split_plans[h]

(* split, lines 169-170: the plans split works with; it runs                *)
(* analyze_structure itself when the handle holds none                      *)
PlansAtEntry(h) ==
    IF split_plans[h] = <<>> /\ doc[h] = "open"
    THEN AnalyzePlans(toc, total_pages)
    ELSE split_plans[h]

(* split, lines 169-179: up to the loop *)
SplitEnter(h, cb) ==
    /\ sp_h' = h
    /\ sp_cb' = cb
    /\ sp_entry' = [empty |-> split_plans[h] = <<>>, released |-> doc[h] # "open"]
    /\ output_files' = <<>>
    /\ cbs' = <<>>
    /\ saved' = <<>>
    /\ sp_i' = 0
    /\ IF split_plans[h] = <<>> /\ doc[h] # "open"
       THEN \* analyze_structure raises RuntimeError
            /\ sp_pc' = "raised"
            /\ made_dir' = FALSE
            /\ sp_plans' = <<>>
            /\ UNCHANGED split_plans
       ELSE /\ split_plans' = [split_plans EXCEPT ![h] = PlansAtEntry(h)]
            /\ sp_plans' = PlansAtEntry(h)
            /\ IF PlansAtEntry(h) = <<>>
               THEN sp_pc' = "raised" /\ made_dir' = FALSE
               ELSE sp_pc' = "loop" /\ made_dir' = TRUE

(* split, lines 181-202: one iteration of the loop *)
SplitIter ==
    /\ sp_pc = "loop"
    /\ sp_i < Len(sp_plans)
    /\ LET plan == sp_plans[sp_i + 1]
       IN  /\ cbs' = IF sp_cb THEN Append(cbs, Progress(sp_i, Len(sp_plans)))
                     ELSE cbs
           /\ IF doc[sp_h] = "open"
              THEN /\ saved' = Append(saved,
                          [path |-> OutputPath(plan.name),
                           pages |-> InsertPdf(total_pages, plan.start_page,
                                               plan.end_page),
                           plan |-> sp_i + 1])
                   /\ output_files' = Append(output_files, OutputPath(plan.name))
                   /\ sp_i' = sp_i + 1
                   /\ UNCHANGED sp_pc
              ELSE \* insert_pdf raises on self.doc = None
                   /\ sp_pc' = "raised"
                   /\ UNCHANGED <<saved, output_files, sp_i>>
    /\ UNCHANGED <<sp_h, sp_cb, sp_plans, sp_entry, made_dir>>

(* split, lines 204-208: after the loop *)
SplitFinish ==
    /\ sp_pc = "loop"
    /\ sp_i = Len(sp_plans)
    /\ cbs' = IF sp_cb THEN Append(cbs, Done) ELSE cbs
    /\ sp_pc' = "returned"
    /\ UNCHANGED <<sp_h, sp_cb, sp_plans, sp_i, sp_entry, output_files,
                   made_dir, saved>>

----------------------------------------------------------------------------
(* A single-threaded user of one handle: the with-block of the module's    *)
(* __main__, generalised to any order of calls                             *)

RECURSIVE SeqsUpTo(_, _)
SeqsUpTo(S, n) ==
    IF n = 0 THEN {<<>>}
    ELSE LET shorter == SeqsUpTo(S, n - 1)
         IN  shorter \cup {Append(s, x) : s \in shorter, x \in S}

(* get_toc gives 1-based page numbers, and -1 for an entry with no target   *)
(* page; a damaged outline may also point behind the last page              *)
PageNumbers == {-1} \cup (1..(MaxPages + 1))

CoreTitles == {<<"a", ":", "b">>}

TocEntries(titles) ==
    [level : {1, 2}, title : titles, page : PageNumbers]

(* len(self.doc) of a document that was loaded: at least one page *)
PageCounts == 1..MaxPages

GuiIdle ==
    /\ input_path = FALSE
    /\ output_path = FALSE
    /\ is_processing = FALSE
    /\ analyze_button = "disabled"
    /\ split_button = "disabled"
    /\ an_phase = "none"
    /\ w_pc = "none"
    /\ after_queue = <<>>
    /\ destroyed = FALSE

SplitIdle ==
    /\ sp_pc = "idle"
    /\ sp_h = 0
    /\ sp_cb = FALSE
    /\ sp_plans = <<>>
    /\ sp_i = 0
    /\ sp_entry = NoEntry
    /\ output_files = <<>>
    /\ cbs = <<>>
    /\ made_dir = FALSE
    /\ saved = <<>>

(* PDFSplitter(filepath): __init__ and _load_pdf *)
Constructed(h) ==
    /\ doc = [x \in Handles |-> IF x = h THEN "open" ELSE "unborn"]
    /\ split_plans = [x \in Handles |-> <<>>]

Init ==
    /\ toc \in SeqsUpTo(TocEntries(CoreTitles), MaxToc)
    /\ total_pages \in PageCounts
    /\ splitter = 1
    /\ Constructed(splitter)
    /\ an_call = NoCall
    /\ SplitIdle
    /\ san = <<>>
    /\ GuiIdle

CallAnalyze ==
    /\ sp_pc # "loop"
    /\ AnalyzeStructure(splitter)
    /\ UNCHANGED <<fileVars, doc, splitter, splitVars, san, guiVars>>

CallClose ==
    /\ sp_pc # "loop"
    /\ Close(splitter)
    /\ UNCHANGED <<fileVars, split_plans, splitter, an_call, splitVars, san,
                   guiVars>>

CallSplit ==
    /\ sp_pc # "loop"
    /\ \E cb \in BOOLEAN : SplitEnter(splitter, cb)
    /\ UNCHANGED <<fileVars, doc, splitter, an_call, san, guiVars>>

SplitLoop ==
    /\ SplitIter
    /\ UNCHANGED <<fileVars, handleVars, splitter, an_call, san, guiVars>>

SplitReturn ==
    /\ SplitFinish
    /\ UNCHANGED <<fileVars, handleVars, splitter, an_call, san, guiVars>>

Next == CallAnalyze \/ CallClose \/ CallSplit \/ SplitLoop \/ SplitReturn

Spec == Init /\ [][Next]_vars

----------------------------------------------------------------------------
(* Properties of analyze_structure *)

LevelOne(t) == SelectSeq(t, LAMBDA e : e.level = 1)

Analyzed == split_plans[splitter] # <<>>

Degenerate(plan) == plan.start_page > plan.end_page

Partitions(plans, P) ==
    /\ plans # <<>>
    /\ plans[1].start_page = 0
    /\ \A i \in 1..(Len(plans) - 1) :
          plans[i + 1].start_page = plans[i].end_page + 1
    /\ plans[Len(plans)].end_page = P - 1
    /\ \A i \in 1..Len(plans) : ~Degenerate(plans[i])

WellFormedOutline ==
    LET top == LevelOne(toc)
    IN  /\ \A i \in 1..Len(top) : top[i].page >= 1 /\ top[i].page <= total_pages
        /\ \A i \in 1..(Len(top) - 1) : top[i].page < top[i + 1].page

\* C1 as stated: for any page count and any outline with at least one
\* level-1 entry, the plans of analyze_structure partition [0, P-1] in order.
C1_PartitionAnyOutline ==
    (Analyzed /\ LevelOne(toc) # <<>>)
        => Partitions(split_plans[splitter], total_pages)

\* C1 amended: when the level-1 entries have strictly increasing page
\* numbers, all in 1..P, the plans of analyze_structure, in the returned
\* order, partition [0, P-1]: first start 0, each next start the previous
\* end + 1, last end P-1, no plan with start_page > end_page.
C1_PartitionWellFormed ==
    (Analyzed /\ LevelOne(toc) # <<>> /\ WellFormedOutline)
        => Partitions(split_plans[splitter], total_pages)

C1_Witness ==
    /\ Analyzed
    /\ WellFormedOutline
    /\ Len(LevelOne(toc)) >= 2
    /\ LevelOne(toc)[1].page > 1
    /\ Len(split_plans[splitter]) = Len(LevelOne(toc)) + 1

----------------------------------------------------------------------------
(* Properties of split *)

NoSideEffect ==
    /\ ~made_dir
    /\ saved = <<>>
    /\ cbs = <<>>
    /\ output_files = <<>>

\* C4 as stated: a split call that finds no plans on the handle is rejected
\* with an error, without running the analysis and without side effects.
C4_EmptyPlansRejected ==
    (sp_pc # "idle" /\ sp_entry.empty)
        => (sp_pc = "raised" /\ NoSideEffect /\ sp_plans = <<>>)

\* C4 amended: a split call that finds no plans on the handle runs
\* analyze_structure itself. On a released handle that analysis raises and
\* split fails with no side effect (no directory, no file, no callback); on
\* a loaded handle split is not rejected: it creates the directory and
\* exports the plans the analysis produced, one file per plan.
C4_EmptyPlansAnalyzed ==
    (sp_pc # "idle" /\ sp_entry.empty)
        => IF sp_entry.released
           THEN sp_pc = "raised" /\ NoSideEffect /\ sp_plans = <<>>
           ELSE /\ sp_pc \in {"loop", "returned"}
                /\ made_dir
                /\ sp_plans # <<>>
                /\ sp_pc = "returned" => Len(saved) = Len(sp_plans)

C4_Witness ==
    /\ sp_entry.empty
    /\ ~sp_entry.released
    /\ sp_pc = "returned"
    /\ saved # <<>>
    /\ sp_cb

\* C5: after close() released the handle, every later analyze_structure or
\* split call fails before any side effect: no output directory, no progress
\* callback, no file, also when plans are still cached on the handle.
C5_ReleasedFailsCleanly ==
    /\ an_call.released => an_call.result = "raised"
    /\ (sp_pc # "idle" /\ sp_entry.released)
          => (sp_pc = "raised" /\ NoSideEffect)

RatLeq(a, b) == a[1] * b[2] <= b[1] * a[2]
RatEq(a, b) == a[1] * b[2] = b[1] * a[2]

\* C6: in one split call with a callback and n >= 1 plans, the progress
\* values are in [0, 1], non-decreasing, start at 0/n, the k-th is (k-1)/n,
\* one is passed before each plan is processed, and a successful export
\* passes n+1 of them, the last exactly 1.0.
C6_Progress ==
    (sp_pc # "idle" /\ sp_cb /\ sp_plans # <<>>)
        => LET n == Len(sp_plans)
           IN  /\ \A k \in 1..Len(cbs) :
                     cbs[k][2] > 0 /\ 0 <= cbs[k][1] /\ cbs[k][1] <= cbs[k][2]
               /\ \A k \in 1..(Len(cbs) - 1) : RatLeq(cbs[k], cbs[k + 1])
               /\ cbs # <<>> => cbs[1][1] = 0
               /\ \A k \in 1..Len(cbs) : k <= n => RatEq(cbs[k], <<k - 1, n>>)
               /\ Len(cbs) >= Len(saved)
               /\ sp_pc = "loop" => Len(cbs) = Len(saved)
               /\ sp_pc = "returned"
                     => /\ Len(cbs) = n + 1
                        /\ cbs[n + 1][1] = cbs[n + 1][2]

C6_Witness ==
    /\ sp_pc = "returned"
    /\ sp_cb
    /\ Len(sp_plans) >= 3
    /\ Len(cbs) = Len(sp_plans) + 1

\* C7: a plan with start_page > end_page that reaches split is either
\* rejected with the whole operation before any file is written, or written
\* as a zero-page document; no source page is copied into its output file.
C7_DegenerateNotCopied ==
    \A k \in 1..Len(saved) :
        Degenerate(sp_plans[saved[k].plan]) => saved[k].pages = <<>>

RECURSIVE SumRanges(_)
SumRanges(plans) ==
    IF plans = <<>> THEN 0
    ELSE Head(plans).end_page - Head(plans).start_page + 1 + SumRanges(Tail(plans))

RECURSIVE SumSaved(_)
SumSaved(files) ==
    IF files = <<>> THEN 0 ELSE Len(Head(files).pages) + SumSaved(Tail(files))

PathsInPlanOrder ==
    /\ Len(output_files) = Len(sp_plans)
    /\ \A i \in 1..Len(sp_plans) :
          output_files[i] =
              OutputDir \o <<"/">> \o sp_plans[i].name \o <<".", "p", "d", "f">>

PagesAddUp ==
    /\ SumRanges(sp_plans) = total_pages
    /\ SumSaved(saved) = total_pages
    /\ \A i \in 1..Len(saved) :
          Len(saved[i].pages) = sp_plans[i].end_page - sp_plans[i].start_page + 1

NoDegenerate == \A i \in 1..Len(sp_plans) : ~Degenerate(sp_plans[i])

\* C8 as stated: a successful split returns one path per plan in plan order,
\* and when no plan has start_page > end_page the page counts of the written
\* files, end_page - start_page + 1 each, add up to the page count.
C8_PathsAndPages ==
    sp_pc = "returned"
        => /\ PathsInPlanOrder
           /\ NoDegenerate => PagesAddUp

\* C8 amended: a successful split returns one path per plan in plan order,
\* and when no plan has start_page > end_page and no plan has a negative
\* start_page (no level-1 entry with a page number below 1), the page counts
\* of the written files, end_page - start_page + 1 each, add up to the page
\* count.
C8_PathsAndPagesFromPageOne ==
    sp_pc = "returned"
        => /\ PathsInPlanOrder
           /\ (NoDegenerate /\ \A i \in 1..Len(sp_plans) : sp_plans[i].start_page >= 0)
                 => PagesAddUp

C8_Witness ==
    /\ sp_pc = "returned"
    /\ NoDegenerate
    /\ Len(sp_plans) >= 3
    /\ \A i \in 1..Len(sp_plans) : sp_plans[i].start_page >= 0
    /\ SumSaved(saved) = total_pages

----------------------------------------------------------------------------
(* The sanitizer applied to a title, then to its own result *)

SanAlphabet == {"a", " ", ".", ":"}

PadLengths == {0} \cup ((MaxNameLen - 2)..MaxNameLen)

SanInputs ==
    {head \o Rep("a", k) \o tail :
        head \in SeqsUpTo(SanAlphabet, 1), k \in PadLengths,
        tail \in SeqsUpTo(SanAlphabet, MaxTail)}

InitSan ==
    /\ san \in {<<x>> : x \in SanInputs}
    /\ toc = <<>>
    /\ total_pages = 1
    /\ splitter = 1
    /\ Constructed(splitter)
    /\ an_call = NoCall
    /\ SplitIdle
    /\ GuiIdle

SanitizeCall ==
    /\ Len(san) < 3
    /\ san' = Append(san, SanitizeFilename(san[Len(san)]))
    /\ UNCHANGED <<fileVars, handleVars, splitter, an_call, splitVars, guiVars>>

SpecSan == InitSan /\ [][SanitizeCall]_vars

\* C3: _sanitize_filename is idempotent: sanitizing its own result changes
\* nothing, also for inputs longer than 100 characters whose 100th character
\* is a space or a period.
C3_Idempotent == Len(san) = 3 => san[3] = san[2]

----------------------------------------------------------------------------
(* analyze_structure on outlines with many chapters and colliding titles *)

RECURSIVE Pow10(_)
Pow10(w) == IF w = 0 THEN 1 ELSE 10 * Pow10(w - 1)

ChapterCounts ==
    (1..MaxChapters) \cup ((Pow10(PadWidth) - 1)..(Pow10(PadWidth) + 1))

NameTitles ==
    {<<"a", ":", "b">>, <<"a", "_", "b">>, <<>>, <<".">>,
     <<"U524D", "U5BFC", "U90E8", "U5206">>, <<"0", "_", "a", "/", "b">>}

(* n chapters on pages 2, 3, ..., titled pair[1], pair[2], pair[1], ... *)
NameToc(n, pair) ==
    [i \in 1..n |-> [level |-> 1, title |-> pair[2 - (i % 2)], page |-> i + 1]]

InitNames ==
    /\ \E n \in ChapterCounts, pair \in NameTitles \X NameTitles :
          /\ toc = NameToc(n, pair)
          /\ total_pages = n + 1
    /\ splitter = 1
    /\ Constructed(splitter)
    /\ an_call = NoCall
    /\ SplitIdle
    /\ san = <<>>
    /\ GuiIdle

SpecNames == InitNames /\ [][CallAnalyze]_vars

IsPrefix(p, s) == Len(p) <= Len(s) /\ SubSeq(s, 1, Len(p)) = p

\* C10: the names of the plans of one analyze_structure call are pairwise
\* distinct, also with equal titles, titles that sanitize to the same string
\* and 100 or more chapters; no chapter name begins with "00_"; so no two
\* plans of one split call share an output path.
C10_NamesDistinct ==
    LET plans == split_plans[splitter]
    IN  /\ \A i, j \in 1..Len(plans) :
              i < j => /\ plans[i].name # plans[j].name
                       /\ OutputPath(plans[i].name) # OutputPath(plans[j].name)
        /\ \A i \in 1..Len(plans) :
              plans[i].level = 1 => ~IsPrefix(<<"0", "0", "_">>, plans[i].name)

C10_Witness ==
    LET plans == split_plans[splitter]
    IN  /\ Len(plans) > Pow10(PadWidth)
        /\ plans[1].level = 0
        /\ toc[1].title # toc[2].title
        /\ SubSeq(plans[2].name, 3, Len(plans[2].name))
              = SubSeq(plans[3].name, 3, Len(plans[3].name))

----------------------------------------------------------------------------
(* SplitterApp: the Tk main thread's handlers and the _do_split thread.    *)
(* A handler that returns at once (a disabled button, a cancelled dialog)  *)
(* changes nothing and is a stuttering step.  _update_progress only moves  *)
(* the progress bar and the status line, which are not modelled, so the    *)
(* progress callback posts nothing here.  After root.destroy() the main     *)
(* loop returns and the process, with its daemon thread, ends: no step     *)
(* follows.  Each _analyze_pdf constructs a new PDFSplitter; the model     *)
(* stops analysing when MaxHandles handles have been constructed.          *)

GuiTocs == SeqsUpTo(TocEntries(CoreTitles), 1)

InitGui ==
    /\ toc \in GuiTocs
    /\ total_pages \in PageCounts
    /\ splitter = 0
    /\ doc = [x \in Handles |-> "unborn"]
    /\ split_plans = [x \in Handles |-> <<>>]
    /\ an_call = NoCall
    /\ SplitIdle
    /\ san = <<>>
    /\ GuiIdle

CloseCurrent ==
    IF splitter # 0 THEN Close(splitter) ELSE UNCHANGED doc

(* _browse_input with a file chosen, and _clear_preview *)
BrowseInput ==
    /\ ~destroyed
    /\ input_path' = TRUE
    /\ output_path' = TRUE
    /\ analyze_button' = "normal"
    /\ split_button' = "disabled"
    /\ UNCHANGED <<fileVars, handleVars, splitter, an_call, splitVars, san,
                   is_processing, an_phase, w_pc, after_queue, destroyed>>

(* _browse_output with a directory chosen *)
BrowseOutput ==
    /\ ~destroyed
    /\ output_path' = TRUE
    /\ UNCHANGED <<fileVars, handleVars, splitter, an_call, splitVars, san,
                   input_path, is_processing, analyze_button, split_button,
                   an_phase, w_pc, after_queue, destroyed>>

(* _analyze_pdf, lines 187-199: up to root.update(), which runs the         *)
(* handlers of the events that are pending                                  *)
AnalyzeBegin ==
    /\ ~destroyed
    /\ analyze_button = "normal"
    /\ an_phase = "none"
    /\ input_path
    /\ \E h \in Handles : doc[h] = "unborn"
    /\ CloseCurrent
    /\ an_phase' = "update"
    /\ UNCHANGED <<fileVars, split_plans, splitter, an_call, splitVars, san,
                   input_path, output_path, is_processing, analyze_button,
                   split_button, w_pc, after_queue, destroyed>>

(* _analyze_pdf, lines 201-227: a new handle, its analysis, the preview *)
AnalyzeLoad ==
    /\ ~destroyed
    /\ an_phase = "update"
    /\ LET h == CHOOSE x \in Handles :
                  doc[x] = "unborn" /\ \A y \in Handles : doc[y] = "unborn" => x <= y
       IN  /\ splitter' = h
           /\ doc' = [doc EXCEPT ![h] = "open"]
           /\ split_plans' = [split_plans EXCEPT ![h] = AnalyzePlans(toc, total_pages)]
    /\ an_call' = [result |-> "returned", released |-> FALSE]
    /\ split_button' = "normal"
    /\ an_phase' = "none"
    /\ UNCHANGED <<fileVars, splitVars, san, input_path, output_path,
                   is_processing, analyze_button, w_pc, after_queue, destroyed>>

(* _start_split, past its early returns: the thread is started *)
StartSplit ==
    /\ ~destroyed
    /\ split_button = "normal"
    /\ ~is_processing
    /\ output_path
    /\ splitter # 0
    /\ is_processing' = TRUE
    /\ analyze_button' = "disabled"
    /\ split_button' = "disabled"
    /\ w_pc' = "start"
    /\ UNCHANGED <<fileVars, handleVars, splitter, an_call, splitVars, san,
                   input_path, output_path, an_phase, after_queue, destroyed>>

(* _do_split, line 273: self.splitter.split(output_dir, progress_callback) *)
WorkerCall ==
    /\ ~destroyed
    /\ w_pc = "start"
    /\ SplitEnter(splitter, TRUE)
    /\ w_pc' = "split"
    /\ UNCHANGED <<fileVars, doc, splitter, an_call, san, input_path,
                   output_path, is_processing, analyze_button, split_button,
                   an_phase, after_queue, destroyed>>

WorkerLoop ==
    /\ ~destroyed
    /\ w_pc = "split"
    /\ SplitIter
    /\ UNCHANGED <<fileVars, handleVars, splitter, an_call, san, guiVars>>

WorkerFinish ==
    /\ ~destroyed
    /\ w_pc = "split"
    /\ SplitFinish
    /\ UNCHANGED <<fileVars, handleVars, splitter, an_call, san, guiVars>>

(* _do_split, lines 276 and 279: the outcome is posted to the main thread *)
WorkerReturn ==
    /\ ~destroyed
    /\ w_pc = "split"
    /\ sp_pc \in {"returned", "raised"}
    /\ after_queue' = Append(after_queue,
                             IF sp_pc = "returned" THEN "complete" ELSE "error")
    /\ w_pc' = "none"
    /\ UNCHANGED <<fileVars, handleVars, splitter, an_call, splitVars, san,
                   input_path, output_path, is_processing, analyze_button,
                   split_button, an_phase, destroyed>>

(* _on_split_complete or _on_split_error, run by the main loop *)
AfterCallback ==
    /\ ~destroyed
    /\ after_queue # <<>>
    /\ after_queue' = Tail(after_queue)
    /\ is_processing' = FALSE
    /\ analyze_button' = "normal"
    /\ split_button' = IF Head(after_queue) = "error" THEN "normal"
                       ELSE split_button
    /\ UNCHANGED <<fileVars, handleVars, splitter, an_call, splitVars, san,
                   input_path, output_path, an_phase, w_pc, destroyed>>

(* on_closing, past the confirmation it asks for while is_processing *)
OnClosing ==
    /\ ~destroyed
    /\ CloseCurrent
    /\ destroyed' = TRUE
    /\ UNCHANGED <<fileVars, split_plans, splitter, an_call, splitVars, san,
                   input_path, output_path, is_processing, analyze_button,
                   split_button, an_phase, w_pc, after_queue>>

NextGui ==
    \/ BrowseInput \/ BrowseOutput \/ AnalyzeBegin \/ AnalyzeLoad
    \/ StartSplit \/ WorkerCall \/ WorkerLoop \/ WorkerFinish
    \/ WorkerReturn \/ AfterCallback \/ OnClosing

SpecGui == InitGui /\ [][NextGui]_vars

ExportRunning == is_processing /\ w_pc \in {"start", "split"}

\* C9: while a background export is running (is_processing, and the
\* _do_split thread has not finished), no step closes the handle, replaces
\* it with a new one or runs analyze_structure on a handle of the app.
C9_HandleSerialized ==
    [][ExportRunning => (splitter' = splitter /\ doc' = doc /\ an_call' = an_call)]_vars

====
